---- MODULE Spec2Model ----
(***************************************************************************)
(* Argos, a remote control for a Mopidy server: the album description      *)
(* routine of AlbumsController, the observable Model and its marshalling   *)
(* of property changes onto the GLib main loop, and the album icons of     *)
(* ArgosWindow.                                                            *)
(*                                                                         *)
(* Python values are modelled as follows.  A dict is a function whose      *)
(* domain is the set of its keys; d.get(k) is Get(d, k).  An optional      *)
(* value (None or v) is the sequence <<>> or <<v>>.  A list is a sequence. *)
(***************************************************************************)
EXTENDS Integers, Sequences, FiniteSets, TLC

VARIABLES
    pc,                  \* position of the coroutine handling the message
    message,             \* data of the COMPLETE_ALBUM_DESCRIPTION message
    response,            \* what lookup_library returned
    completed,           \* calls made to Model.complete_album_description
    props,               \* Model: GObject properties, name -> value
    albums,              \* Model.albums
    idle,                \* GLib main loop: queued idle callbacks, in order
    thread,              \* thread that took the last step
    notified,            \* notify:: signals emitted, with the emitting thread
    store,               \* ArgosWindow.albums_view model (Gtk.ListStore) rows
    store_iter,          \* _update_album_icons: row the worker is at, 0: not running
    playing_track_image, \* what ArgosWindow.playing_track_image shows
    set_albums,          \* the call of Model._set_albums in progress or last made
    requested,           \* the value last passed to set_property_in_gtk_thread, by name
    clear_track_list     \* clear_track_list: the call it makes next, 0: not running

vars == <<pc, message, response, completed, props, albums, idle, thread,
          notified, store, store_iter, playing_track_image, set_albums,
          requested, clear_track_list>>

describeVars == <<pc, message, response, completed>>
modelVars == <<props, albums, notified, set_albums, requested, clear_track_list>>
windowVars == <<store, store_iter, playing_track_image>>

----------------------------------------------------------------------------
(* Python values *)

None == <<>>

Some(v) == <<v>>

EmptyDict == <<>>

Get(d, k) == IF k \in DOMAIN d THEN Some(d[k]) ELSE None

GetDefault(d, k, default) == IF k \in DOMAIN d THEN d[k] ELSE default

----------------------------------------------------------------------------
(* Bounds of the model *)

MaxTracks == 3

MaxIdle == 3

(* Program constants *)

UnknownLength == -1

ALBUM_ICON_SIZE == 100

----------------------------------------------------------------------------
(* AlbumsController: the description of an album *)

AlbumUri == "album:1"

TrackUri(i) == "track:" \o ToString(i)

\* A key that a dict may lack: the dicts with the key absent or bound to a value.
Field(k, vals) == {EmptyDict} \cup {k :> v : v \in vals}

\* The track dicts of a lookup, without their uri.
RawTracks(discs, nos, lengths, albumFields, artistsFields) ==
    { [disc_no |-> d, track_no |-> n] @@ l @@ a @@ r :
        d \in discs, n \in nos, l \in lengths, a \in albumFields, r \in artistsFields }

\* Track i of a lookup result has its own uri.
WithUri(raws) == [i \in 1..Len(raws) |-> ("uri" :> TrackUri(i)) @@ raws[i]]

TrackLists(raw, n) == { WithUri(s) : s \in UNION { [1..k -> raw] : k \in 0..n } }

\* lookup_library([uri]) returns None or a mapping holding at most the key uri.
Responses(raw) ==
    {None, Some(EmptyDict)} \cup { Some(AlbumUri :> ts) : ts \in TrackLists(raw, MaxTracks) }

\* utils.parse_tracks: one TrackModel per track dict, in the order of the mapping.
TrackModel(t) ==
    [uri |-> t.uri, disc_no |-> t.disc_no, track_no |-> t.track_no,
     length |-> Get(t, "length")]

AllTracks(tracks) ==
    IF DOMAIN tracks = {} THEN <<>> ELSE tracks[CHOOSE u \in DOMAIN tracks : TRUE]

parse_tracks(tracks) ==
    LET all == AllTracks(tracks) IN [i \in 1..Len(all) |-> TrackModel(all[i])]

\* LengthAcc.__call__: int() of an integer length is that integer.
LengthAccRevives(length, t) ==
    IF "length" \in DOMAIN t
    THEN (IF length = UnknownLength THEN 0 ELSE length) + t.length
    ELSE UnknownLength

LengthAccOverwrites(length, t) ==
    IF length # UnknownLength /\ "length" \in DOMAIN t
    THEN t.length
    ELSE UnknownLength

LengthAcc(length, t) ==
    IF length # UnknownLength /\ "length" \in DOMAIN t
    THEN length + t.length
    ELSE UnknownLength

\* parse_tracks calls the visitor on every track dict, in order.
RECURSIVE Visit(_, _, _)
Visit(length, all, i) ==
    IF i > Len(all) THEN length ELSE Visit(LengthAcc(length, all[i]), all, i + 1)

\* attrgetter("disc_no", "track_no")
SortKeySwapped(t) == <<t.track_no, t.disc_no>>

SortKey(t) == <<t.disc_no, t.track_no>>

\* Python compares tuples lexicographically.
TupleLess(a, b) == a[1] < b[1] \/ (a[1] = b[1] /\ a[2] < b[2])

\* list.sort(key=...) is a stable sort: an element goes after the elements
\* whose key is not greater than its own.
RECURSIVE InsertSorted(_, _)
InsertSorted(s, x) ==
    IF s = <<>> THEN <<x>>
    ELSE IF TupleLess(SortKey(x), SortKey(s[Len(s)]))
         THEN Append(InsertSorted(SubSeq(s, 1, Len(s) - 1), x), s[Len(s)])
         ELSE Append(s, x)

RECURSIVE SortFrom(_, _, _)
SortFrom(sorted, s, i) ==
    IF i > Len(s) THEN sorted ELSE SortFrom(InsertSorted(sorted, s[i]), s, i + 1)

sort(s) == SortFrom(<<>>, s, 1)

Truthy(opt) == opt # None /\ DOMAIN opt[1] # {}

\* The artist_name of _describe_album.
ArtistNameLast(first) ==
    LET artists == GetDefault(first, "artists", <<>>)
    IN  IF Len(artists) > 0 THEN Get(artists[Len(artists)], "name") ELSE None

ArtistName(first) ==
    LET artists == GetDefault(first, "artists", <<>>)
    IN  IF Len(artists) > 0 THEN Get(artists[1], "name") ELSE None

\* The track of album_tracks whose album _describe_album reads.
AlbumTrackLast(album_tracks) == album_tracks[Len(album_tracks)]

AlbumTrack(album_tracks) == album_tracks[1]

\* _describe_album after lookup_library returned: the calls it makes to
\* Model.complete_album_description.
describe_album_always(uri, tracks) ==
    LET album_tracks == IF tracks = None THEN <<>> ELSE GetDefault(tracks[1], uri, <<>>)
        album == IF Len(album_tracks) > 0 /\ Truthy(Get(AlbumTrack(album_tracks), "album"))
                 THEN AlbumTrack(album_tracks).album ELSE EmptyDict
    IN  << [uri |-> uri,
            artist_name |-> IF Len(album_tracks) > 0
                            THEN ArtistName(album_tracks[1]) ELSE None,
            num_tracks |-> Get(album, "num_tracks"),
            num_discs |-> Get(album, "num_discs"),
            date |-> Get(album, "date"),
            length |-> IF tracks = None THEN 0 ELSE Visit(0, AllTracks(tracks[1]), 1),
            tracks |-> IF tracks = None THEN <<>> ELSE sort(parse_tracks(tracks[1]))] >>

describe_album(uri, tracks) ==
    IF tracks = None THEN <<>>
    ELSE LET album_tracks == Get(tracks[1], uri)
         IN  IF album_tracks = None \/ Len(album_tracks[1]) = 0 THEN <<>>
             ELSE LET album == Get(AlbumTrack(album_tracks[1]), "album")
                  IN  IF ~Truthy(album) THEN <<>>
                      ELSE << [uri |-> uri,
                               artist_name |-> ArtistName(album_tracks[1][1]),
                               num_tracks |-> Get(album[1], "num_tracks"),
                               num_discs |-> Get(album[1], "num_discs"),
                               date |-> Get(album[1], "date"),
                               length |-> Visit(0, AllTracks(tracks[1]), 1),
                               tracks |-> sort(parse_tracks(tracks[1]))] >>

\* do_process_message, COMPLETE_ALBUM_DESCRIPTION: an empty or missing
\* album_uri describes nothing.
ProcessMessage(data) ==
    /\ pc = "idle"
    /\ message' = data
    /\ pc' = IF GetDefault(data, "album_uri", "") # "" THEN "lookup" ELSE "done"
    /\ UNCHANGED <<response, completed>>
    /\ UNCHANGED <<modelVars, idle, thread, windowVars>>

\* await self._http.lookup_library([uri]): the server's answer arrives.
LookupLibrary(raw) ==
    /\ pc = "lookup"
    /\ response' \in Responses(raw)
    /\ pc' = "describe"
    /\ UNCHANGED <<message, completed>>
    /\ UNCHANGED <<modelVars, idle, thread, windowVars>>

\* The rest of _describe_album.
DescribeAlbum ==
    /\ pc = "describe"
    /\ completed' = completed \o describe_album(message.album_uri, response)
    /\ pc' = "done"
    /\ UNCHANGED <<message, response>>
    /\ UNCHANGED <<modelVars, idle, thread, windowVars>>

Messages == {EmptyDict, [album_uri |-> ""], [album_uri |-> AlbumUri]}

InitDescribe ==
    /\ pc = "idle"
    /\ message = EmptyDict
    /\ response = None
    /\ completed = <<>>

----------------------------------------------------------------------------
(* Model: observable properties, set from any thread *)

\* PlaybackState.UNKNOWN
UNKNOWN == 0

\* The defaults of the GObject properties.
DefaultProps ==
    [network_available |-> FALSE, connected |-> FALSE, state |-> UNKNOWN,
     mute |-> FALSE, volume |-> 0, track_uri |-> "", track_name |-> "",
     track_length |-> -1, time_position |-> -1, artist_uri |-> "",
     artist_name |-> "", image_path |-> "", albums_loaded |-> FALSE,
     albums_images_loaded |-> FALSE]

\* Model.__init__: network_available is what the network monitor reports.
InitModel ==
    /\ props \in { [DefaultProps EXCEPT !.network_available = b] : b \in BOOLEAN }
    /\ albums = <<>>
    /\ notified = None
    /\ set_albums = [pc |-> "none"]
    /\ requested = EmptyDict
    /\ clear_track_list = 0

InitLoop ==
    /\ idle = <<>>
    /\ thread = "gtk"

\* partial(self.set_property, name, value)
SetPropertyCallback(name, value) ==
    [callback |-> "set_property", name |-> name, value |-> value]

\* The values last passed to set_property_in_gtk_thread, after a call of it.
Requested(last, name, value) == (name :> value) @@ last

\* set_property_in_gtk_thread for a GObject property: the idle queue after it.
QueueSetProperty(queue, p, name, value) ==
    IF p[name] # value
    THEN Append(queue, SetPropertyCallback(name, value))
    ELSE queue

\* set_property_in_gtk_thread(name, value), name a GObject property, called
\* from a thread other than the main loop's.
SetPropertyInGtkThread(name, value) ==
    /\ set_albums.pc = "none"
    /\ clear_track_list = 0
    /\ Len(idle) < MaxIdle
    /\ idle' = QueueSetProperty(idle, props, name, value)
    /\ requested' = Requested(requested, name, value)
    /\ thread' = "caller"
    /\ UNCHANGED <<props, albums, notified, set_albums, clear_track_list>>
    /\ UNCHANGED <<describeVars, windowVars>>

\* The calls of clear_track_list, in order.
ClearedProperties ==
    << <<"track_uri", "">>, <<"track_name", "">>, <<"track_length", -1>>,
       <<"time_position", -1>>, <<"artist_uri", "">>, <<"artist_name", "">>,
       <<"image_path", "">> >>

\* clear_track_list is called and makes its first call; the main loop may run
\* between its calls.
ClearTrackList ==
    /\ set_albums.pc = "none"
    /\ clear_track_list = 0
    /\ Len(idle) < MaxIdle
    /\ idle' = QueueSetProperty(idle, props, ClearedProperties[1][1], ClearedProperties[1][2])
    /\ requested' = Requested(requested, ClearedProperties[1][1], ClearedProperties[1][2])
    /\ clear_track_list' = 2
    /\ thread' = "caller"
    /\ UNCHANGED <<props, albums, notified, set_albums, describeVars, windowVars>>

\* The next call of clear_track_list.
ClearTrackListNext ==
    /\ clear_track_list > 0
    /\ Len(idle) < MaxIdle
    /\ LET call == ClearedProperties[clear_track_list]
       IN  /\ idle' = QueueSetProperty(idle, props, call[1], call[2])
           /\ requested' = Requested(requested, call[1], call[2])
    /\ clear_track_list' =
           IF clear_track_list < Len(ClearedProperties) THEN clear_track_list + 1 ELSE 0
    /\ thread' = "caller"
    /\ UNCHANGED <<props, albums, notified, set_albums, describeVars, windowVars>>

\* Album(name, uri, v.get("image_path", ""), v.get("image_uri", ""))
Album(v) ==
    [name |-> v.name, uri |-> v.uri,
     image_path |-> GetDefault(v, "image_path", ""),
     image_uri |-> GetDefault(v, "image_uri", "")]

\* not all([name, uri]): a missing (None) or empty name or uri
Skipped(v) == GetDefault(v, "name", "") = "" \/ GetDefault(v, "uri", "") = ""

\* The loop of _set_albums.
RECURSIVE AppendAlbums(_, _, _)
AppendAlbums(list, value, i) ==
    IF i > Len(value) THEN list
    ELSE AppendAlbums(IF Skipped(value[i]) THEN list ELSE Append(list, Album(value[i])),
                      value, i + 1)

\* set_property_in_gtk_thread("albums", value): _set_albums runs in the calling
\* thread, and the main loop may run between its statements.
SetAlbumsBegin(value) ==
    /\ set_albums.pc = "none"
    /\ clear_track_list = 0
    /\ set_albums' = [pc |-> IF props.albums_loaded THEN "unload" ELSE "append",
                      value |-> value]
    /\ thread' = "caller"
    /\ UNCHANGED <<props, albums, notified, idle, requested, clear_track_list>>
    /\ UNCHANGED <<describeVars, windowVars>>

SetAlbumsUnload ==
    /\ set_albums.pc = "unload"
    /\ Len(idle) < MaxIdle
    /\ idle' = QueueSetProperty(idle, props, "albums_loaded", FALSE)
    /\ requested' = Requested(requested, "albums_loaded", FALSE)
    /\ set_albums' = [set_albums EXCEPT !.pc = "unload_images"]
    /\ thread' = "caller"
    /\ UNCHANGED <<props, albums, notified, clear_track_list, describeVars, windowVars>>

SetAlbumsUnloadImages ==
    /\ set_albums.pc = "unload_images"
    /\ Len(idle) < MaxIdle
    /\ idle' = QueueSetProperty(idle, props, "albums_images_loaded", FALSE)
    /\ requested' = Requested(requested, "albums_images_loaded", FALSE)
    /\ albums' = <<>>
    /\ set_albums' = [set_albums EXCEPT !.pc = "append"]
    /\ thread' = "caller"
    /\ UNCHANGED <<props, notified, clear_track_list, describeVars, windowVars>>

SetAlbumsAppend ==
    /\ set_albums.pc = "append"
    /\ albums' = AppendAlbums(albums, set_albums.value, 1)
    /\ set_albums' = [set_albums EXCEPT !.pc = "loaded"]
    /\ thread' = "caller"
    /\ UNCHANGED <<props, notified, idle, requested, clear_track_list>>
    /\ UNCHANGED <<describeVars, windowVars>>

SetAlbumsLoaded ==
    /\ set_albums.pc = "loaded"
    /\ Len(idle) < MaxIdle
    /\ idle' = QueueSetProperty(idle, props, "albums_loaded", TRUE)
    /\ requested' = Requested(requested, "albums_loaded", TRUE)
    /\ set_albums' = [set_albums EXCEPT !.pc = "none"]
    /\ thread' = "caller"
    /\ UNCHANGED <<props, albums, notified, clear_track_list, describeVars, windowVars>>

\* The main loop runs the oldest idle callback; set_property returns None, so
\* the callback is removed.  GObject emits notify::name in the setting thread.
RunSetProperty ==
    /\ idle # <<>>
    /\ Head(idle).callback = "set_property"
    /\ props' = [props EXCEPT ![Head(idle).name] = Head(idle).value]
    /\ notified' = Some([name |-> Head(idle).name, thread |-> "gtk"])
    /\ idle' = Tail(idle)
    /\ thread' = "gtk"
    /\ UNCHANGED <<albums, set_albums, requested, clear_track_list>>
    /\ UNCHANGED <<describeVars, windowVars>>

----------------------------------------------------------------------------
(* ArgosWindow: album icons and the image of the playing track *)

Max(a, b) == IF a >= b THEN a ELSE b

Min(a, b) == IF a <= b THEN a ELSE b

\* Python's round() of the fraction n / d: to the nearest integer, a tie to the
\* even one.
Round(n, d) ==
    LET q == n \div d
        r == n % d
    IN  IF 2 * r < d THEN q
        ELSE IF 2 * r > d THEN q + 1
        ELSE IF q % 2 = 0 THEN q ELSE q + 1

\* utils.compute_target_size
compute_target_size(source_width, source_height, target_width) ==
    LET longer == Max(source_width, source_height)
    IN  << Max(1, Round(source_width * target_width, longer)),
           Max(1, Round(source_height * target_width, longer)) >>

\* self._default_album_icon
DefaultAlbumIcon == [kind |-> "default"]

\* Pixbuf.new_from_file: GLib.Error (None here) or an image of some size.
Decodes(dims) == {None} \cup { Some([width |-> w, height |-> h]) : w \in dims, h \in dims }

\* The size an album icon is scaled to.
IconSize(pixbuf) ==
    compute_target_size(pixbuf.width, pixbuf.height, ALBUM_ICON_SIZE)

\* _scale_album_icon, given what Pixbuf.new_from_file did.
scale_album_icon(pixbuf) ==
    IF pixbuf = None THEN None
    ELSE Some([kind |-> "scaled", source |-> pixbuf[1],
               width |-> IconSize(pixbuf[1])[1], height |-> IconSize(pixbuf[1])[2]])

\* A row of the albums store: uri, icon file path and pixbuf columns.
StoreRow(album) ==
    [uri |-> album.uri,
     icon_file_path |-> IF album.image_path # "" THEN Some(album.image_path) ELSE None,
     pixbuf |-> Some(DefaultAlbumIcon)]

\* update_albums_list, called in the main loop's thread.  The worker of
\* update_album_icons walking a store that is being replaced is left out.
UpdateAlbumsList(list) ==
    /\ store_iter = 0
    /\ store' = [i \in 1..Len(list) |-> StoreRow(list[i])]
    /\ thread' = "gtk"
    /\ UNCHANGED <<store_iter, playing_track_image, idle, modelVars, describeVars>>

\* update_album_icons starts the worker: store.get_iter_first()
UpdateAlbumIcons ==
    /\ store_iter = 0
    /\ store_iter' = IF store = <<>> THEN 0 ELSE 1
    /\ thread' = "gtk"
    /\ UNCHANGED <<store, playing_track_image, idle, modelVars, describeVars>>

UpdateAlbumIconCallback(path, pixbuf) ==
    [callback |-> "update_album_icon", path |-> path, pixbuf |-> pixbuf]

\* One turn of the loop of _update_album_icons, in the worker thread.
UpdateAlbumIconsStep(dims) ==
    /\ store_iter > 0
    /\ Len(idle) < MaxIdle
    /\ IF store[store_iter].icon_file_path # None
       THEN \E pixbuf \in Decodes(dims) :
                idle' = Append(idle,
                               UpdateAlbumIconCallback(store_iter, scale_album_icon(pixbuf)))
       ELSE idle' = idle
    /\ store_iter' = IF store_iter < Len(store) THEN store_iter + 1 ELSE 0
    /\ thread' = "worker"
    /\ UNCHANGED <<store, playing_track_image, modelVars, describeVars>>

\* The main loop runs update_album_icon(path, pixbuf); store.get_iter raises
\* on a path that is no longer in the store.
RunUpdateAlbumIcon ==
    /\ idle # <<>>
    /\ Head(idle).callback = "update_album_icon"
    /\ store' = IF Head(idle).path <= Len(store)
                THEN [store EXCEPT ![Head(idle).path].pixbuf = Head(idle).pixbuf]
                ELSE store
    /\ idle' = Tail(idle)
    /\ thread' = "gtk"
    /\ UNCHANGED <<store_iter, playing_track_image, modelVars, describeVars>>

\* min(rectangle.width, rectangle.height)
TargetWidthLonger(rectangle) == Max(rectangle.width, rectangle.height)

TargetWidth(rectangle) == Min(rectangle.width, rectangle.height)

WelcomeMusic == [kind |-> "resource", name |-> "/app/argos/Argos/icons/welcome-music.svg"]

\* update_playing_track_image(image_path)
UpdatePlayingTrackImage(image_path, dims, sides) ==
    /\ IF image_path = None \/ image_path = Some("")
       THEN playing_track_image' = WelcomeMusic
       ELSE \E pixbuf \in Decodes(dims) :
                IF pixbuf = None
                THEN playing_track_image' = WelcomeMusic
                ELSE \E w \in sides, h \in sides :
                        LET rectangle == [width |-> w, height |-> h]
                            size == compute_target_size(pixbuf[1].width, pixbuf[1].height,
                                                        TargetWidth(rectangle))
                        IN  playing_track_image' =
                                [kind |-> "pixbuf", source |-> pixbuf[1],
                                 rectangle |-> rectangle,
                                 width |-> size[1], height |-> size[2]]
    /\ thread' = "gtk"
    /\ UNCHANGED <<store, store_iter, idle, modelVars, describeVars>>

InitWindow ==
    /\ store = <<>>
    /\ store_iter = 0
    /\ playing_track_image = [kind |-> "template"]

Init == InitDescribe /\ InitModel /\ InitLoop /\ InitWindow

----------------------------------------------------------------------------
(* Specifications *)

AlbumA == [name |-> "A", num_tracks |-> 2, num_discs |-> 1, date |-> "2001"]

AlbumB == [name |-> "B"]

ArtistsX == <<[name |-> "x"]>>

\* Tracks that differ in their length and in carrying an album.
LengthTracks ==
    RawTracks({1}, {1}, Field("length", {0, 1, 2}), Field("album", {AlbumA}),
              {"artists" :> ArtistsX})

\* Tracks that differ in their disc and track numbers, and in having a length.
SortTracks ==
    RawTracks({1, 2}, {1, 2}, Field("length", {1}), {"album" :> AlbumA},
              {"artists" :> ArtistsX})

\* Tracks that differ in their album and artists.
MetaTracks ==
    RawTracks({1}, {1}, {"length" :> 1}, Field("album", {EmptyDict, AlbumA, AlbumB}),
              Field("artists", {<<>>, <<EmptyDict>>, ArtistsX, <<[name |-> "y"], [name |-> "x"]>>}))

NextLength ==
    \/ \E data \in Messages : ProcessMessage(data)
    \/ LookupLibrary(LengthTracks)
    \/ DescribeAlbum

NextSort ==
    \/ \E data \in Messages : ProcessMessage(data)
    \/ LookupLibrary(SortTracks)
    \/ DescribeAlbum

NextMeta ==
    \/ \E data \in Messages : ProcessMessage(data)
    \/ LookupLibrary(MetaTracks)
    \/ DescribeAlbum

SpecLength == Init /\ [][NextLength]_vars

SpecSort == Init /\ [][NextSort]_vars

SpecMeta == Init /\ [][NextMeta]_vars

\* What the controllers pass to set_property_in_gtk_thread in this model.
PropertyCalls ==
    {<<"track_name", "">>, <<"track_name", "song">>, <<"albums_images_loaded", TRUE>>}

AlbumDictA ==
    [name |-> "A", uri |-> "album:1", image_path |-> "/cache/a.png", image_uri |-> "http://a"]

AlbumDictB == [name |-> "B", uri |-> "album:2"]

AlbumDictNoName == [uri |-> "album:3", image_uri |-> "http://c"]

AlbumValues == {<<>>, <<AlbumDictA, AlbumDictNoName, AlbumDictB>>, <<AlbumDictB>>}

NextModel ==
    \/ \E call \in PropertyCalls : SetPropertyInGtkThread(call[1], call[2])
    \/ \E value \in AlbumValues : SetAlbumsBegin(value)
    \/ SetAlbumsUnload
    \/ SetAlbumsUnloadImages
    \/ SetAlbumsAppend
    \/ SetAlbumsLoaded
    \/ RunSetProperty

SpecModel == Init /\ [][NextModel]_vars

\* What the playback controller passes to set_property_in_gtk_thread.
TrackCalls ==
    {<<"track_name", "song">>, <<"track_name", "">>, <<"track_length", 1000>>,
     <<"image_path", "/cache/a.png">>}

NextTrack ==
    \/ \E call \in TrackCalls : SetPropertyInGtkThread(call[1], call[2])
    \/ ClearTrackList
    \/ ClearTrackListNext
    \/ RunSetProperty

SpecTrack == Init /\ [][NextTrack]_vars

\* The main loop runs every callback queued, sooner or later.
FairModel == SpecModel /\ WF_vars(RunSetProperty)

AlbumLists ==
    {<<>>, <<Album(AlbumDictA)>>, <<Album(AlbumDictB), Album(AlbumDictA)>>}

IconDims == {50, 1920}

ImagePaths == {None, Some(""), Some("/cache/a.png")}

NextWindow ==
    \/ \E list \in AlbumLists : UpdateAlbumsList(list)
    \/ UpdateAlbumIcons
    \/ UpdateAlbumIconsStep(IconDims)
    \/ RunUpdateAlbumIcon
    \/ \E image_path \in ImagePaths :
            UpdatePlayingTrackImage(image_path, {ALBUM_ICON_SIZE}, {ALBUM_ICON_SIZE})

SpecWindow == Init /\ [][NextWindow]_vars

SizeDims == {1, 2, 3, 50, 1080, 1920}

SizeSides == {1, 3, 5, 100}

NextSize ==
    \E image_path \in ImagePaths : UpdatePlayingTrackImage(image_path, SizeDims, SizeSides)

SpecSize == Init /\ [][NextSize]_vars

----------------------------------------------------------------------------
(* The description of an album: properties *)

\* The tracks of the album in the lookup result, in the order supplied.
InputTracks == response[1][AlbumUri]

\* complete_album_description was called, with these arguments.
Described == pc = "done" /\ completed # <<>>

Description == completed[1]

\* The lookup returned nothing, or nothing for the album, or no track.
NotFound(tracks) ==
    \/ tracks = None
    \/ AlbumUri \notin DOMAIN tracks[1]
    \/ tracks[1][AlbumUri] = <<>>

RECURSIVE SumOfLengths(_, _)
SumOfLengths(ts, n) == IF n = 0 THEN 0 ELSE ts[n].length + SumOfLengths(ts, n - 1)

\* C1: when a track of the set has no length, the length passed to the model
\* is the unknown sentinel, wherever that track stands in the set.
C1_MissingLengthIsUnknown ==
    (Described /\ \E i \in DOMAIN InputTracks : "length" \notin DOMAIN InputTracks[i])
        => Description.length = UnknownLength

\* A track without a length is followed by tracks that have one.
C1_Witness ==
    /\ Described
    /\ Len(InputTracks) = 3
    /\ "length" \notin DOMAIN InputTracks[1]
    /\ "length" \in DOMAIN InputTracks[2] /\ InputTracks[2].length > 0
    /\ "length" \in DOMAIN InputTracks[3] /\ InputTracks[3].length > 0
    /\ Description.length = UnknownLength

\* C2: when every track of a non-empty set has a length, the length passed to
\* the model is the sum of the lengths.
C2_TotalIsSum ==
    (Described /\ \A i \in DOMAIN InputTracks : "length" \in DOMAIN InputTracks[i])
        => Description.length = SumOfLengths(InputTracks, Len(InputTracks))

C2_Witness ==
    /\ Described
    /\ Len(InputTracks) = 3
    /\ \A i \in DOMAIN InputTracks : "length" \in DOMAIN InputTracks[i]
    /\ InputTracks[1].length = 2 /\ InputTracks[2].length = 1 /\ InputTracks[3].length = 2
    /\ Description.length = 5

\* The place in the input of the track with this uri.
InputIndex(uri) == CHOOSE i \in DOMAIN InputTracks : InputTracks[i].uri = uri

\* C3: the tracks passed to the model are the input tracks, each once, by
\* ascending (disc_no, track_no), tracks of equal key in their input order.
C3_TracksSortedStable ==
    Described =>
        LET out == Description.tracks
        IN  /\ Len(out) = Len(InputTracks)
            /\ \A i \in DOMAIN InputTracks :
                   \E j \in DOMAIN out :
                       /\ out[j].uri = InputTracks[i].uri
                       /\ out[j].disc_no = InputTracks[i].disc_no
                       /\ out[j].track_no = InputTracks[i].track_no
            /\ \A i, j \in DOMAIN out :
                   i < j =>
                       \/ out[i].disc_no < out[j].disc_no
                       \/ out[i].disc_no = out[j].disc_no /\ out[i].track_no < out[j].track_no
                       \/ /\ out[i].disc_no = out[j].disc_no
                          /\ out[i].track_no = out[j].track_no
                          /\ InputIndex(out[i].uri) < InputIndex(out[j].uri)

\* Two tracks of equal key around a track that sorts before them both.
C3_Witness ==
    /\ Described
    /\ Len(InputTracks) = 3
    /\ InputTracks[1].disc_no = 2 /\ InputTracks[1].track_no = 1
    /\ InputTracks[2].disc_no = 1 /\ InputTracks[2].track_no = 2
    /\ InputTracks[3].disc_no = 2 /\ InputTracks[3].track_no = 1
    /\ Description.tracks[1].uri = TrackUri(2)
    /\ Description.tracks[2].uri = TrackUri(1)
    /\ Description.tracks[3].uri = TrackUri(3)

\* C4: when the lookup returns nothing, or nothing or no track for the album,
\* complete_album_description is not called and the model does not change.
C4_NotFoundNoUpdate ==
    [][(pc = "describe" /\ NotFound(response))
           => /\ completed' = completed
              /\ props' = props /\ albums' = albums /\ idle' = idle]_vars

C4_Witness ==
    /\ pc = "done"
    /\ response = Some(AlbumUri :> <<>>)
    /\ completed = <<>>

\* The first track, in input order, that carries an album field.
FirstWithAlbum(ts) ==
    CHOOSE i \in DOMAIN ts :
        /\ "album" \in DOMAIN ts[i]
        /\ \A j \in 1..(i - 1) : "album" \notin DOMAIN ts[j]

Metadata(album) ==
    [num_tracks |-> Get(album, "num_tracks"), num_discs |-> Get(album, "num_discs"),
     date |-> Get(album, "date")]

DescribedMetadata ==
    [num_tracks |-> Description.num_tracks, num_discs |-> Description.num_discs,
     date |-> Description.date]

\* C5 as stated: the metadata is that of the first track carrying an album
\* field, wherever it stands, and is absent when no track carries one, the
\* album being described in both cases.
C5_AsStated ==
    (pc = "done" /\ ~NotFound(response)) =>
        /\ completed # <<>>
        /\ DescribedMetadata =
               IF \E i \in DOMAIN InputTracks : "album" \in DOMAIN InputTracks[i]
               THEN Metadata(InputTracks[FirstWithAlbum(InputTracks)].album)
               ELSE Metadata(EmptyDict)

\* C5 amended: the metadata is that of the first track of the set, and the
\* album is not described when that track has no album or an empty one.
C5_MetadataOfFirstTrack ==
    (pc = "done" /\ ~NotFound(response)) =>
        IF "album" \in DOMAIN InputTracks[1] /\ DOMAIN InputTracks[1].album # {}
        THEN completed # <<>> /\ DescribedMetadata = Metadata(InputTracks[1].album)
        ELSE completed = <<>>

\* The first track has no album and the second has one: nothing is described.
C5_Witness ==
    /\ pc = "done"
    /\ ~NotFound(response)
    /\ Len(InputTracks) >= 2
    /\ "album" \notin DOMAIN InputTracks[1]
    /\ "album" \in DOMAIN InputTracks[2] /\ InputTracks[2].album = AlbumA
    /\ completed = <<>>

\* C6: the artist_name passed to the model is the name of the first of the
\* first track's artists, and None when that track has no artist; the album
\* is described all the same.
C6_ArtistOfFirstTrack ==
    (pc = "done" /\ ~NotFound(response)
        /\ "album" \in DOMAIN InputTracks[1] /\ DOMAIN InputTracks[1].album # {}) =>
        /\ completed # <<>>
        /\ Description.artist_name =
               IF "artists" \in DOMAIN InputTracks[1] /\ InputTracks[1].artists # <<>>
               THEN (IF "name" \in DOMAIN InputTracks[1].artists[1]
                     THEN Some(InputTracks[1].artists[1].name) ELSE None)
               ELSE None

C6_Witness ==
    /\ Described
    /\ Len(InputTracks) >= 2
    /\ "artists" \in DOMAIN InputTracks[1] /\ InputTracks[1].artists = <<>>
    /\ "artists" \in DOMAIN InputTracks[2] /\ InputTracks[2].artists = ArtistsX
    /\ Description.artist_name = None

----------------------------------------------------------------------------
(* The window: properties *)

Abs(x) == IF x >= 0 THEN x ELSE -x

\* out is side * target / longer rounded to the nearest integer, and at least 1.
Scaled(out, side, target, longer) ==
    /\ out >= 1
    /\ \/ 2 * Abs(out * longer - side * target) <= longer
       \/ out = 1 /\ 2 * side * target <= longer

C8_DefaultIconOnDecodeError ==
    (store_iter = 0 /\ idle = <<>>) =>
        \A i \in DOMAIN store : store[i].pixbuf # None

----------------------------------------------------------------------------
(* The model: properties *)

\* C9 as stated: a step of the calling thread changes no state of the model
\* and emits no signal, whatever the name; it queues at most one callback, and
\* none for a value the property already has.
C9_NoChangeInCallingThread ==
    [][thread' = "caller" =>
           /\ props' = props /\ albums' = albums /\ notified' = notified
           /\ idle' # idle =>
                  /\ Len(idle') = Len(idle) + 1
                  /\ SubSeq(idle', 1, Len(idle)) = idle
                  /\ props[idle'[Len(idle')].name] # idle'[Len(idle')].value]_vars

\* C10 as stated: when a call of _set_albums has returned and the main loop
\* has run every callback queued, albums_loaded is True.
C10_LoadedAfterSetAlbums ==
    (set_albums.pc = "none" /\ "value" \in DOMAIN set_albums /\ idle = <<>>)
        => props.albums_loaded = TRUE

\* No call of set_property_in_gtk_thread is in progress and the main loop has
\* run every callback queued.
Quiescent == idle = <<>> /\ set_albums.pc = "none" /\ clear_track_list = 0

\* C11 as stated: when every queued callback has run, each property has the
\* value last passed to set_property_in_gtk_thread for it; after
\* clear_track_list the seven track properties have their cleared defaults.
C11_LastWriteWins ==
    Quiescent => \A name \in DOMAIN requested : props[name] = requested[name]

\* The entries of value that have a name and a uri, as albums, in input order.
KeptAlbums(value) ==
    LET Named(v) ==
            /\ "name" \in DOMAIN v /\ v.name # ""
            /\ "uri" \in DOMAIN v /\ v.uri # ""
        kept == SelectSeq(value, Named)
    IN  [i \in 1..Len(kept) |->
            [name |-> kept[i].name, uri |-> kept[i].uri,
             image_path |-> IF "image_path" \in DOMAIN kept[i] THEN kept[i].image_path ELSE "",
             image_uri |-> IF "image_uri" \in DOMAIN kept[i] THEN kept[i].image_uri ELSE ""]]

\* C12 as stated: when a call of _set_albums has returned, Model.albums holds
\* the named entries of that call's value, in order, and nothing else.
C12_AlbumsOfLastCall ==
    (set_albums.pc = "none" /\ "value" \in DOMAIN set_albums)
        => albums = KeptAlbums(set_albums.value)

====
